---------------------------- MODULE Spec2Model ----------------------------
(***************************************************************************)
(* Model of metrics/slp.py (compute_atp, compute_app) together with the    *)
(* constants table of utils/constants.py.                                  *)
(*                                                                         *)
(* Numbers are floating-point values.  The code computes in IEEE binary64; *)
(* the model computes in a decimal floating-point format with a short      *)
(* mantissa, an unbounded exponent, round-to-nearest-even on every         *)
(* operation, and the special values inf and nan.                          *)
(***************************************************************************)
EXTENDS Integers, Sequences, FiniteSets, TLC

(***************************************************************************)
(* Floating-point arithmetic (the float / numpy.float64 values of the code)*)
(***************************************************************************)

\* Mantissas are kept in [MantLo, MantHi): four significant decimal digits.
MantLo == 1000
MantHi == 10 * MantLo

Abs(n) == IF n < 0 THEN -n ELSE n

Sgn(n) == IF n < 0 THEN -1 ELSE IF n > 0 THEN 1 ELSE 0

Zero == [c |-> "num", m |-> 0, e |-> 0]

NaN == [c |-> "nan", m |-> 0, e |-> 0]

Inf(s) == [c |-> "inf", m |-> s, e |-> 0]

IsFinite(x) == x.c = "num"

\* The power of ten by which a magnitude n >= MantHi must be divided to
\* bring it below MantHi.
RECURSIVE DropPow(_, _)
DropPow(n, p) == IF n \div p < MantHi THEN p ELSE DropPow(n, p * 10)

RECURSIVE Log10(_)
Log10(p) == IF p = 1 THEN 0 ELSE 1 + Log10(p \div 10)

RECURSIVE Grow(_, _, _)
Grow(s, n, e) ==
    IF n < MantLo THEN Grow(s, n * 10, e - 1)
    ELSE [c |-> "num", m |-> s * n, e |-> e]

\* n = q * p + r with p a power of ten: q rounded to the nearest integer,
\* ties to even.
RoundQuot(q, r, p) ==
    IF (2 * r > p) \/ (2 * r = p /\ q % 2 = 1) THEN q + 1 ELSE q

\* The magnitude n >= MantHi with sign s and exponent e, rounded.
Shrink(s, n, e, p) ==
    CHOOSE z \in
      {IF q = MantHi
       THEN [c |-> "num", m |-> s * MantLo, e |-> e + Log10(p) + 1]
       ELSE [c |-> "num", m |-> s * q, e |-> e + Log10(p)] :
         q \in {RoundQuot(n \div p, n % p, p)}}
      : TRUE

\* Round the exact value m * 10^e to the nearest representable number,
\* ties to even.
NormOf(m, e) ==
    IF m = 0 THEN Zero
    ELSE IF Abs(m) < MantHi THEN Grow(Sgn(m), Abs(m), e)
    ELSE Shrink(Sgn(m), Abs(m), e, DropPow(Abs(m), 10))

Norm(m, e) == CHOOSE z \in {NormOf(i, j) : i \in {m}, j \in {e}} : TRUE

\* A decimal literal m * 10^e of the source.
F(m, e) == Norm(m, e)

RECURSIVE Pow10(_)
Pow10(k) == IF k = 0 THEN 1 ELSE 10 * Pow10(k - 1)

\* Every operation below takes its operands by value: an operand is
\* evaluated once, bound, and the operation is computed on the bound value.

NegOf(x) ==
    IF x.c = "nan" THEN NaN
    ELSE IF x.c = "inf" THEN Inf(-x.m)
    ELSE [c |-> "num", m |-> -x.m, e |-> x.e]

Neg(x) == CHOOSE z \in {NegOf(a) : a \in {x}} : TRUE

\* Exact sum of two finite numbers, rounded once.  When the exponents are
\* more than five apart the smaller operand is below half a unit in the
\* last place of the larger one and the larger one is the rounded sum.
AddNum(x, y) ==
    IF x.m = 0 THEN y
    ELSE IF y.m = 0 THEN x
    ELSE IF x.e >= y.e
         THEN (IF x.e - y.e > 5 THEN x
               ELSE Norm(x.m * Pow10(x.e - y.e) + y.m, y.e))
         ELSE (IF y.e - x.e > 5 THEN y
               ELSE Norm(y.m * Pow10(y.e - x.e) + x.m, x.e))

AddOf(x, y) ==
    IF x.c = "nan" \/ y.c = "nan" THEN NaN
    ELSE IF x.c = "inf" /\ y.c = "inf" THEN (IF x.m = y.m THEN x ELSE NaN)
    ELSE IF x.c = "inf" THEN x
    ELSE IF y.c = "inf" THEN y
    ELSE AddNum(x, y)

Add(x, y) == CHOOSE z \in {AddOf(a, b) : a \in {x}, b \in {y}} : TRUE

Sub(x, y) == CHOOSE z \in {AddOf(a, NegOf(b)) : a \in {x}, b \in {y}} : TRUE

MulOf(x, y) ==
    IF x.c = "nan" \/ y.c = "nan" THEN NaN
    ELSE IF x.c = "inf" \/ y.c = "inf"
         THEN (IF x.m = 0 \/ y.m = 0 THEN NaN ELSE Inf(Sgn(x.m) * Sgn(y.m)))
    ELSE Norm(x.m * y.m, x.e + y.e)

Mul(x, y) == CHOOSE z \in {MulOf(a, b) : a \in {x}, b \in {y}} : TRUE

\* The quotient of two finite non-zero numbers: six or seven digits of it
\* and a sticky digit for the remainder, rounded once.
DivNum(x, y) ==
    Norm(Sgn(x.m) * Sgn(y.m)
           * (((Abs(x.m) * 100000) \div Abs(y.m)) * 10
              + (IF (Abs(x.m) * 100000) % Abs(y.m) = 0 THEN 0 ELSE 1)),
         x.e - y.e - 6)

\* numpy division: x / 0 is inf (nan for 0 / 0), never an exception.
DivOf(x, y) ==
    IF x.c = "nan" \/ y.c = "nan" THEN NaN
    ELSE IF x.c = "inf" THEN (IF y.c = "inf" THEN NaN
                              ELSE Inf(x.m * (IF y.m < 0 THEN -1 ELSE 1)))
    ELSE IF y.c = "inf" THEN Zero
    ELSE IF y.m = 0 THEN (IF x.m = 0 THEN NaN ELSE Inf(Sgn(x.m)))
    ELSE IF x.m = 0 THEN Zero
    ELSE DivNum(x, y)

Div(x, y) == CHOOSE z \in {DivOf(a, b) : a \in {x}, b \in {y}} : TRUE

\* Sign of a number: -1, 0, 1 (nan has no sign).
Sign(x) == CHOOSE z \in {IF a.c = "nan" THEN 0 ELSE Sgn(a.m) : a \in {x}} : TRUE

\* x < y and x <= y; a comparison with nan is false.
LtOf(x, y) ==
    x.c # "nan" /\ y.c # "nan" /\ x # y /\ Sgn(AddOf(x, NegOf(y)).m) < 0

Lt(x, y) == \E a \in {x}, b \in {y} : LtOf(a, b)

Le(x, y) == \E a \in {x}, b \in {y} : a.c # "nan" /\ b.c # "nan" /\ (a = b \/ LtOf(a, b))

FAbs(x) == CHOOSE z \in {IF a.m < 0 THEN NegOf(a) ELSE a : a \in {x}} : TRUE

One == F(1, 0)

FromInt(n) == Norm(n, 0)

\* Largest integer not above a finite number 0 <= x < 10^9.
FloorInt(x) ==
    IF x.m = 0 THEN 0
    ELSE IF x.e >= 0 THEN x.m * Pow10(x.e)
    ELSE IF -x.e > 9 THEN 0
    ELSE x.m \div Pow10(-x.e)

Ln10 == F(2303, -3)

\* Sum of the series 1 + r + r^2/2! + ..., added up until a further term
\* no longer changes the rounded sum.
RECURSIVE ExpSeries(_, _, _, _)
ExpSeries(r, term, acc, k) ==
    CHOOSE z \in
      {IF a = acc \/ k > 40 THEN acc ELSE ExpSeries(r, t, a, k + 1) :
         <<t, a>> \in {<<u, AddOf(acc, u)>> : u \in {DivOf(MulOf(term, r), FromInt(k))}}}
      : TRUE

\* e^a for a finite a >= 0: a = n * ln(10) + r, e^a = 10^n * e^r.
ExpPos(a) ==
    CHOOSE z \in
      {[c |-> "num", m |-> t.m, e |-> t.e + n] :
         <<n, t>> \in {<<i, ExpSeries(Sub(a, Mul(FromInt(i), Ln10)), One, One, 1)>> :
                         i \in {FloorInt(v) : v \in {DivOf(a, Ln10)}}}}
      : TRUE

\* numpy.exp on binary64: overflows to inf above 709.78 and underflows to
\* zero below -745.13.
ExpOf(x) ==
    IF x.c = "nan" THEN NaN
    ELSE IF x.c = "inf" THEN (IF x.m > 0 THEN x ELSE Zero)
    ELSE IF x.m = 0 THEN One
    ELSE IF LtOf(F(7097, -1), x) THEN Inf(1)
    ELSE IF LtOf(x, F(-7451, -1)) THEN Zero
    ELSE IF x.m > 0 THEN ExpPos(x)
    ELSE Div(One, ExpPos(NegOf(x)))

np_exp(x) == CHOOSE z \in {ExpOf(a) : a \in {x}} : TRUE

RECURSIVE ISqrt(_, _, _)
ISqrt(n, lo, hi) ==
    IF hi - lo <= 1 THEN lo
    ELSE IF ((lo + hi) \div 2) * ((lo + hi) \div 2) <= n
         THEN ISqrt(n, (lo + hi) \div 2, hi)
         ELSE ISqrt(n, lo, (lo + hi) \div 2)

\* The square root of a finite positive number, correctly rounded.
SqrtNum(x) ==
    CHOOSE z \in
      {Norm(IF root * root + root < n THEN root + 1 ELSE root,
            IF x.e % 2 = 1 THEN (x.e - 5) \div 2 ELSE (x.e - 4) \div 2) :
         <<n, root>> \in {<<i, ISqrt(i, 0, 31623)>> :
                            i \in {IF x.e % 2 = 1 THEN x.m * 100000 ELSE x.m * 10000}}}
      : TRUE

SqrtOf(x) ==
    IF x.c = "nan" \/ x.m < 0 THEN NaN
    ELSE IF x.c = "inf" \/ x.m = 0 THEN x
    ELSE SqrtNum(x)

np_sqrt(x) == CHOOSE z \in {SqrtOf(a) : a \in {x}} : TRUE

(***************************************************************************)
(* utils/constants.py                                                      *)
(***************************************************************************)

\* A two-element Python list, indexed 0 and 1.
Pair(a, b) == (0 :> a) @@ (1 :> b)

POLLUTANTS == {"SO2", "BC", "CO2", "CH4"}

SLP == {"SO2", "BC", "CH4"}

C1 == F(631, -3)

C2 == F(429, -3)

D == Pair(F(84, -1), F(4095, -1))

CF == F(34, -3)

H1 == 100

H2 == 20

Days == F(365, 0)

\* A CH4 lifetime of 8.4 years, the first decay timescale.
CH4TauAtD0 == F(84, -1)

\* SPECS['CH4']['tau']: 9.7 * 1.24
CH4Tau == Mul(F(97, -1), F(124, -2))

SPECS ==
    [p \in POLLUTANTS |->
       CASE p = "SO2" ->
              [tau     |-> Div(F(435, -2), Days),
               tau_std |-> np_sqrt(Add(Mul(Div(F(8, -2), Days), Div(F(8, -2), Days)),
                                       Mul(Div(F(7, -1), Days), Div(F(7, -1), Days)))),
               fp      |-> F(-4, -1),
               k       |-> F(2678, -3),
               k_std   |-> F(317, -3)]
         [] p = "BC" ->
              [tau     |-> Div(F(68, -1), Days),
               tau_std |-> Div(F(18, -1), Days),
               fp      |-> F(1, 0),
               k       |-> F(2675, -3),
               k_std   |-> F(819, -3)]
         [] p = "CO2" ->
              [tau     |-> <<F(1729, -1), F(1851, -2), F(1186, -3)>>,
               a0      |-> F(217, -3),
               ai      |-> <<F(259, -3), F(338, -3), F(186, -3)>>,
               fp      |-> F(1, 0),
               k       |-> F(2470, -3),
               k_std   |-> F(160, -3)]
         [] p = "CH4" ->
              [f       |-> F(124, -2),
               tau     |-> CH4Tau,
               tau_std |-> F(15, -1),
               fp      |-> F(1, 0),
               k       |-> F(2766, -3),
               k_std   |-> F(383, -3)]]

\* The module-level state of utils/constants.py that metrics/slp.py reads.
ConstantsTable ==
    [SLP |-> SLP, SPECS |-> SPECS, D |-> D, C1 |-> C1, C2 |-> C2, CF |-> CF]

(***************************************************************************)
(* metrics/slp.py: the expressions of compute_atp and compute_app          *)
(***************************************************************************)

\* The check made against the list of all pollutants instead.
PollutantAcceptedAny(pollutant, table) == pollutant \in POLLUTANTS

\* The pollutant check of both entry points.
PollutantAccepted(pollutant, table) == pollutant \in table.SLP

\* The range built with the nominal lifetime first.
LifetimeRangeNominalFirst(spec) ==
    <<spec.tau, Sub(spec.tau, spec.tau_std), Add(spec.tau, spec.tau_std)>>

\* np.array([tau - tau_std, tau, tau + tau_std])
LifetimeRange(spec) ==
    <<Sub(spec.tau, spec.tau_std), spec.tau, Add(spec.tau, spec.tau_std)>>

\* The lifetime(s) the formulas use.  A scalar is a sequence of length one,
\* the lifetime range a sequence of length three.
Lifetime(spec, lifetime_range) ==
    IF lifetime_range THEN LifetimeRange(spec) ELSE <<spec.tau>>

\* Whether compute_atp consults scaling.get_mm_scaling.
RemovesErfScaling(pollutant, erf_scaling) ==
    pollutant = "SO2" /\ ~erf_scaling

\* The division made by the first scaling factor instead.
UnscaledRadEffFirstFactor(rad_eff, mm) == Div(rad_eff, mm[0])

\* rad_eff / scaling.get_mm_scaling(pollutant)[1]
UnscaledRadEff(rad_eff, mm) == Div(rad_eff, mm[1])

\* np.exp(-th / x)
Decay(th, x) == np_exp(Div(FromInt(-th), x))

\* The factor with the denominator the other way round, D[j] - tau.
ResponseFactorReversed(rad_eff, tau, c, d) ==
    Div(Mul(Mul(rad_eff, tau), c), Sub(d, tau))

\* rad_eff * tau * c_scaled[j] / (tau - D[j])
ResponseFactor(rad_eff, tau, c, d) ==
    Div(Mul(Mul(rad_eff, tau), c), Sub(tau, d))

\* The kernel with the second "1 -" left out.
IntegratedKernelSlip(tau, d, th) ==
    Sub(Mul(tau, Sub(One, Decay(th, tau))), Mul(d, Decay(th, d)))

\* tau * (1 - np.exp(-th / tau)) - D[j] * (1 - np.exp(-th / D[j]))
IntegratedKernel(tau, d, th) ==
    Sub(Mul(tau, Sub(One, Decay(th, tau))), Mul(d, Sub(One, Decay(th, d))))

\* np.exp(-th / tau) - np.exp(-th / D[j])
PulseKernel(tau, d, th) == Sub(Decay(th, tau), Decay(th, d))

\* sum(... for j in range(2)), for one lifetime value.
Iatp(rad_eff, tau, c_scaled, th, dd) ==
    Add(Add(Zero, Mul(ResponseFactor(rad_eff, tau, c_scaled[0], dd[0]),
                      IntegratedKernel(tau, dd[0], th))),
        Mul(ResponseFactor(rad_eff, tau, c_scaled[1], dd[1]),
            IntegratedKernel(tau, dd[1], th)))

Atp(rad_eff, tau, c_scaled, th, dd) ==
    Add(Add(Zero, Mul(ResponseFactor(rad_eff, tau, c_scaled[0], dd[0]),
                      PulseKernel(tau, dd[0], th))),
        Mul(ResponseFactor(rad_eff, tau, c_scaled[1], dd[1]),
            PulseKernel(tau, dd[1], th)))

\* A lifetime that makes a denominator tau - D[j] zero.
Singular(tau, dd) ==
    \E i \in 1..Len(tau), j \in {0, 1} : Sub(tau[i], dd[j]) = Zero

\* rr_precip_avg / precip_avg
PrecipScale(rr_precip_avg, precip_avg) == Div(rr_precip_avg, precip_avg)

\* Cf * (k * iagtp - fp * rad_eff_a * tau * (1 - np.exp(-th / tau))) * scale
Iarpp(cf, k, fp, iagtp, rad_eff_a, tau, th, scale) ==
    Mul(Mul(cf, Sub(Mul(k, iagtp),
                    Mul(Mul(Mul(fp, rad_eff_a), tau), Sub(One, Decay(th, tau))))),
        scale)

\* Cf * k * iagtp * scale, and Cf * k * agtp * scale
SlowComponent(cf, k, gtp, scale) == Mul(Mul(Mul(cf, k), gtp), scale)

\* The fast component without the minus sign of -fp.
FastIarppUnsigned(cf, fp, rad_eff_a, tau, th, scale) ==
    Mul(Mul(Mul(Mul(Mul(cf, fp), rad_eff_a), tau), Sub(One, Decay(th, tau))),
        scale)

\* Cf * -fp * rad_eff_a * tau * (1 - np.exp(-th / tau)) * scale
FastIarpp(cf, fp, rad_eff_a, tau, th, scale) ==
    Mul(Mul(Mul(Mul(Mul(cf, Neg(fp)), rad_eff_a), tau), Sub(One, Decay(th, tau))),
        scale)

\* Cf * (k * agtp - fp * rad_eff_a * np.exp(-th / tau)) * scale
Arpp(cf, k, fp, agtp, rad_eff_a, tau, th, scale) ==
    Mul(Mul(cf, Sub(Mul(k, agtp), Mul(Mul(fp, rad_eff_a), Decay(th, tau)))),
        scale)

\* Cf * -fp * rad_eff_a * np.exp(-th / tau) * scale
FastArpp(cf, fp, rad_eff_a, tau, th, scale) ==
    Mul(Mul(Mul(Mul(cf, Neg(fp)), rad_eff_a), Decay(th, tau)), scale)

(***************************************************************************)
(* The callers' inputs and the collaborators' return values                *)
(***************************************************************************)

\* Largest time horizon the callers pass.
MaxTh == 100

ThVals == {th \in {0, H2, H1, H1 + 1} : th <= MaxTh}

\* Pollutant arguments: the accepted ones, CO2 and an unknown name.
PollutantArgs == POLLUTANTS \cup {"XYZ"}

RadEffs == {F(-1, -12), F(1, -12)}

RadEffAs == {F(5, -13), F(-3, -13)}

RrPrecipAvgs == {F(12, -1)}

PrecipAvgs == {F(25, -1), Zero}

\* variables.get_scaled_climate_sensitivity(pollutant): a pair [c1, c2].
ScaledSensitivities == {Pair(F(7, -1), F(45, -2)), Pair(F(55, -2), F(5, -1))}

\* scaling.get_mm_scaling(pollutant): a pair of scaling factors.
MmScalings == {Pair(F(12, -1), F(8, -1)), Pair(F(9, -1), F(125, -2))}

(***************************************************************************)
(* State                                                                   *)
(***************************************************************************)

VARIABLES
    constants,  \* the constants table (module state of utils/constants.py)
    pc,         \* the statement about to run; "idle" between calls, "done"
                \* when a call has ended and the caller holds its outcome
    call,       \* the caller's entry-point call and its argument values
    atp,        \* the frame of compute_atp
    app,        \* the frame of compute_app
    trace,      \* reads of SPECS and collaborator calls of the current call
    outcome,    \* how the last call ended
    prev,       \* an earlier completed call the caller kept for comparison
    study       \* pollutant and rad_eff a caller's study is fixed to

vars == <<constants, pc, call, atp, app, trace, outcome, prev, study>>

NoFrame == [fn |-> "none"]

NoOutcome == [kind |-> "none", error |-> "", value |-> <<>>]

Raised(name) == [kind |-> "error", error |-> name, value |-> <<>>]

Returned(v) == [kind |-> "return", error |-> "", value |-> v]

NoStudy == [on |-> FALSE]

Event(ev, of, val, flags) == [ev |-> ev, of |-> of, val |-> val, flags |-> flags]

\* The constants tables a constants provider may hold: the shipped one, and
\* ones whose CH4 lifetime, or its upper range value, meets D[0].
ProviderTables ==
    {ConstantsTable,
     [ConstantsTable EXCEPT !.SPECS["CH4"].tau = F(84, -1)],
     [ConstantsTable EXCEPT !.SPECS["CH4"].tau = F(69, -1)]}

Studies ==
    [on : {TRUE}, pollutant : SLP, rad_eff : RadEffs]

Init ==
    /\ constants = ConstantsTable
    /\ pc = "idle"
    /\ call = NoFrame
    /\ atp = NoFrame
    /\ app = NoFrame
    /\ trace = <<>>
    /\ outcome = NoOutcome
    /\ prev = NoFrame
    /\ study = NoStudy

\* The pollutants and radiative efficiencies the caller passes.
CallPollutants ==
    IF study.on THEN {study.pollutant, "XYZ"} ELSE PollutantArgs

CallRadEffs == IF study.on THEN {study.rad_eff} ELSE RadEffs

\* The frame of compute_atp(pollutant, rad_eff, th, c_scaling, erf_scaling,
\* lifetime_range) on entry.
AtpFrame(pollutant, rad_eff, th, c_scaling, erf_scaling, lifetime_range) ==
    [fn             |-> "compute_atp",
     pollutant      |-> pollutant,
     rad_eff        |-> rad_eff,
     th             |-> th,
     c_scaling      |-> c_scaling,
     erf_scaling    |-> erf_scaling,
     lifetime_range |-> lifetime_range,
     tau            |-> <<>>,
     c_scaled       |-> <<>>]

(***************************************************************************)
(* The caller                                                              *)
(***************************************************************************)

\* A caller calls compute_atp(pollutant, rad_eff, th, c_scaling,
\* erf_scaling, lifetime_range).
CallAtp ==
    /\ pc = "idle"
    /\ \E p \in CallPollutants, r \in CallRadEffs, th \in ThVals,
          cs \in BOOLEAN, es \in BOOLEAN, lr \in BOOLEAN :
          /\ call' = [fn |-> "compute_atp",
                      args |-> [pollutant |-> p, rad_eff |-> r, th |-> th,
                                c_scaling |-> cs, erf_scaling |-> es,
                                lifetime_range |-> lr]]
          /\ atp' = AtpFrame(p, r, th, cs, es, lr)
    /\ app' = NoFrame
    /\ trace' = <<>>
    /\ outcome' = NoOutcome
    /\ pc' = "atp52"
    /\ UNCHANGED <<constants, prev, study>>

\* A caller calls compute_app(pollutant, rad_eff, rad_eff_a, th,
\* rr_precip_avg, precip_avg).
CallApp ==
    /\ pc = "idle"
    /\ \E p \in CallPollutants, r \in CallRadEffs, ra \in RadEffAs,
          th \in ThVals, rr \in RrPrecipAvgs, pa \in PrecipAvgs :
          /\ call' = [fn |-> "compute_app",
                      args |-> [pollutant |-> p, rad_eff |-> r, rad_eff_a |-> ra,
                                th |-> th, rr_precip_avg |-> rr, precip_avg |-> pa]]
          /\ app' = [fn |-> "compute_app", pollutant |-> p, rad_eff |-> r,
                     rad_eff_a |-> ra, th |-> th, rr_precip_avg |-> rr,
                     precip_avg |-> pa, tau |-> Zero, fp |-> Zero, k |-> Zero,
                     iagtp |-> Zero, agtp |-> Zero]
    /\ atp' = NoFrame
    /\ trace' = <<>>
    /\ outcome' = NoOutcome
    /\ pc' = "app142"
    /\ UNCHANGED <<constants, prev, study>>

\* The caller takes the outcome of the call and goes on.
Discard ==
    /\ pc = "done"
    /\ pc' = "idle"
    /\ call' = NoFrame
    /\ trace' = <<>>
    /\ outcome' = NoOutcome
    /\ UNCHANGED <<constants, atp, app, prev, study>>

\* The caller keeps a call that returned, and what it returned, to compare
\* a later call with.
Remember ==
    /\ pc = "done"
    /\ outcome.kind = "return"
    /\ prev' = [call |-> call, trace |-> trace, outcome |-> outcome]
    /\ pc' = "idle"
    /\ call' = NoFrame
    /\ trace' = <<>>
    /\ outcome' = NoOutcome
    /\ UNCHANGED <<constants, atp, app, study>>

(***************************************************************************)
(* compute_atp, statement by statement                                     *)
(***************************************************************************)

\* compute_atp returns v: to the caller, or into compute_app's
\* "iagtp, agtp = compute_atp(pollutant, rad_eff, th)".
AtpReturn(v) ==
    /\ atp' = NoFrame
    /\ IF app = NoFrame
       THEN /\ outcome' = Returned(v)
            /\ pc' = "done"
            /\ app' = app
       ELSE /\ app' = [app EXCEPT !.iagtp = v[1][1], !.agtp = v[2][1]]
            /\ pc' = "app153"
            /\ outcome' = outcome

\* An exception leaves every frame and reaches the caller.
Raise(name) ==
    /\ outcome' = Raised(name)
    /\ pc' = "done"
    /\ atp' = NoFrame
    /\ app' = NoFrame

\* assert pollutant in constants.SLP
AtpCheck ==
    /\ pc = "atp52"
    /\ IF PollutantAccepted(atp.pollutant, constants)
       THEN /\ pc' = "atp55"
            /\ UNCHANGED <<atp, app, outcome>>
       ELSE Raise("AssertionError")
    /\ UNCHANGED <<constants, call, trace, prev, study>>

\* if lifetime_range: tau = np.array([...]) else: tau = SPECS[pollutant]['tau']
AtpLifetime ==
    /\ pc = "atp55"
    /\ atp' = [atp EXCEPT !.tau = Lifetime(constants.SPECS[atp.pollutant],
                                           atp.lifetime_range)]
    /\ trace' = Append(trace, Event("SPECS", atp.pollutant, <<>>, <<>>))
    /\ pc' = "atp65"
    /\ UNCHANGED <<constants, call, app, outcome, prev, study>>

\* if c_scaling: c_scaled = variables.get_scaled_climate_sensitivity(pollutant)
\* else: c_scaled = [constants.C1, constants.C2]
AtpSensitivity ==
    /\ pc = "atp65"
    /\ IF atp.c_scaling
       THEN \E c \in ScaledSensitivities :
               /\ atp' = [atp EXCEPT !.c_scaled = c]
               /\ trace' = Append(trace, Event("get_scaled_climate_sensitivity",
                                               atp.pollutant, c, <<>>))
       ELSE /\ atp' = [atp EXCEPT !.c_scaled = Pair(constants.C1, constants.C2)]
            /\ trace' = trace
    /\ pc' = "atp71"
    /\ UNCHANGED <<constants, call, app, outcome, prev, study>>

\* The division done in place, on the caller's value: rad_eff /= ...
AtpErfScalingInPlace ==
    /\ pc = "atp71"
    /\ IF RemovesErfScaling(atp.pollutant, atp.erf_scaling)
       THEN \E mm \in MmScalings :
               /\ atp' = [atp EXCEPT !.rad_eff = Div(atp.rad_eff, mm[1])]
               /\ call' = [call EXCEPT !.args.rad_eff = Div(atp.rad_eff, mm[1])]
               /\ trace' = Append(trace, Event("get_mm_scaling", atp.pollutant,
                                               mm, <<>>))
       ELSE UNCHANGED <<atp, trace, call>>
    /\ pc' = "atp76"
    /\ UNCHANGED <<constants, app, outcome, prev, study>>

\* if pollutant == 'SO2': if not erf_scaling:
\*     rad_eff = rad_eff / scaling.get_mm_scaling(pollutant)[1]
AtpErfScaling ==
    /\ pc = "atp71"
    /\ IF RemovesErfScaling(atp.pollutant, atp.erf_scaling)
       THEN \E mm \in MmScalings :
               /\ atp' = [atp EXCEPT !.rad_eff = UnscaledRadEff(atp.rad_eff, mm)]
               /\ trace' = Append(trace, Event("get_mm_scaling", atp.pollutant,
                                               mm, <<>>))
       ELSE UNCHANGED <<atp, trace>>
    /\ pc' = "atp76"
    /\ UNCHANGED <<constants, call, app, outcome, prev, study>>

\* iatp = sum(...); atp = sum(...); return iatp, atp
\* With a scalar lifetime the operands are Python floats unless a
\* collaborator's value (of a type the code does not fix) entered them:
\* a float division by zero raises ZeroDivisionError, a numpy one gives
\* inf or nan.  With the lifetime range tau is a numpy array.
AtpCompute ==
    /\ pc = "atp76"
    /\ LET tau == atp.tau
           v   == <<[i \in 1..Len(tau) |->
                       Iatp(atp.rad_eff, tau[i], atp.c_scaled, atp.th, constants.D)],
                    [i \in 1..Len(tau) |->
                       Atp(atp.rad_eff, tau[i], atp.c_scaled, atp.th, constants.D)]>>
           numpyOperand ==
               atp.c_scaling \/ RemovesErfScaling(atp.pollutant, atp.erf_scaling)
       IN  IF ~atp.lifetime_range /\ Singular(tau, constants.D)
           THEN \E raises \in (IF numpyOperand THEN BOOLEAN ELSE {TRUE}) :
                   IF raises THEN Raise("ZeroDivisionError") ELSE AtpReturn(v)
           ELSE AtpReturn(v)
    /\ UNCHANGED <<constants, call, trace, prev, study>>

(***************************************************************************)
(* compute_app, statement by statement                                     *)
(***************************************************************************)

\* assert pollutant in constants.SLP
AppCheck ==
    /\ pc = "app142"
    /\ IF PollutantAccepted(app.pollutant, constants)
       THEN /\ pc' = "app145"
            /\ UNCHANGED <<atp, app, outcome>>
       ELSE Raise("AssertionError")
    /\ UNCHANGED <<constants, call, trace, prev, study>>

\* tau, fp, k = constants.SPECS[pollutant]['tau'], ['fp'], ['k']
AppLoad ==
    /\ pc = "app145"
    /\ LET spec == constants.SPECS[app.pollutant]
       IN  app' = [app EXCEPT !.tau = spec.tau, !.fp = spec.fp, !.k = spec.k]
    /\ trace' = Append(trace, Event("SPECS", app.pollutant, <<>>, <<>>))
    /\ pc' = "app150"
    /\ UNCHANGED <<constants, call, atp, outcome, prev, study>>

\* The call made with erf_scaling=False.
AppAtpCallUnscaled(frame) ==
    AtpFrame(frame.pollutant, frame.rad_eff, frame.th, TRUE, FALSE, FALSE)

\* The frame of the call compute_atp(pollutant, rad_eff, th): the three
\* flags take their defaults c_scaling=True, erf_scaling=True,
\* lifetime_range=False.
AppAtpCall(frame) ==
    AtpFrame(frame.pollutant, frame.rad_eff, frame.th, TRUE, TRUE, FALSE)

\* iagtp, agtp = compute_atp(pollutant, rad_eff, th)
AppCallAtp ==
    /\ pc = "app150"
    /\ atp' = AppAtpCall(app)
    /\ trace' = Append(trace,
                       Event("compute_atp", atp'.pollutant,
                             <<atp'.rad_eff, FromInt(atp'.th)>>,
                             <<atp'.c_scaling, atp'.erf_scaling,
                               atp'.lifetime_range>>))
    /\ pc' = "atp52"
    /\ UNCHANGED <<constants, call, app, outcome, prev, study>>

\* The six potentials and "return iarpp, slow_iarpp, fast_iarpp, arpp,
\* slow_arpp, fast_arpp".  rr_precip_avg / precip_avg divides two Python
\* floats and raises ZeroDivisionError when precip_avg is zero.
AppCompute ==
    /\ pc = "app153"
    /\ IF app.precip_avg = Zero
       THEN Raise("ZeroDivisionError")
       ELSE LET scale == PrecipScale(app.rr_precip_avg, app.precip_avg)
                cf    == constants.CF
            IN  /\ outcome' = Returned(
                      <<Iarpp(cf, app.k, app.fp, app.iagtp, app.rad_eff_a,
                              app.tau, app.th, scale),
                        SlowComponent(cf, app.k, app.iagtp, scale),
                        FastIarpp(cf, app.fp, app.rad_eff_a, app.tau, app.th, scale),
                        Arpp(cf, app.k, app.fp, app.agtp, app.rad_eff_a,
                             app.tau, app.th, scale),
                        SlowComponent(cf, app.k, app.agtp, scale),
                        FastArpp(cf, app.fp, app.rad_eff_a, app.tau, app.th, scale)>>)
                /\ pc' = "done"
                /\ atp' = NoFrame
                /\ app' = NoFrame
    /\ UNCHANGED <<constants, call, trace, prev, study>>

(***************************************************************************)
(* Specifications                                                          *)
(***************************************************************************)

Next ==
    \/ CallAtp
    \/ CallApp
    \/ Discard
    \/ AtpCheck
    \/ AtpLifetime
    \/ AtpSensitivity
    \/ AtpErfScaling
    \/ AtpCompute
    \/ AppCheck
    \/ AppLoad
    \/ AppCallAtp
    \/ AppCompute

\* Callers of the shipped program.
Spec == Init /\ [][Next]_vars

\* A caller that fixes a pollutant and a radiative efficiency and compares
\* the outcomes of its calls.
InitStudy ==
    /\ constants = ConstantsTable
    /\ pc = "idle"
    /\ call = NoFrame
    /\ atp = NoFrame
    /\ app = NoFrame
    /\ trace = <<>>
    /\ outcome = NoOutcome
    /\ prev = NoFrame
    /\ study \in Studies

NextStudy == Next \/ Remember

SpecStudy == InitStudy /\ [][NextStudy]_vars

\* The core behind a constants provider: the table is whatever the
\* provider holds when the calls are made.
InitProvider ==
    /\ constants \in ProviderTables
    /\ pc = "idle"
    /\ call = NoFrame
    /\ atp = NoFrame
    /\ app = NoFrame
    /\ trace = <<>>
    /\ outcome = NoOutcome
    /\ prev = NoFrame
    /\ study = NoStudy

SpecProvider == InitProvider /\ [][Next]_vars

(***************************************************************************)
(* Properties                                                              *)
(***************************************************************************)

\* A top-level call has ended.
Done == pc = "done"

\* The positions of the events named ev in a trace.
Events(t, ev) == {i \in 1..Len(t) : t[i].ev = ev}

\* The kept call and the last call are both completed compute_atp calls
\* that returned.
BothAtpReturned ==
    /\ Done
    /\ prev # NoFrame
    /\ call.fn = "compute_atp"
    /\ prev.call.fn = "compute_atp"
    /\ outcome.kind = "return"
    /\ prev.outcome.kind = "return"

\* C1: a call of compute_atp or compute_app whose pollutant is not SO2, BC
\* or CH4 stops at the pollutant check: it reads no pollutant
\* specification, calls neither collaborator, does not enter compute_atp
\* from compute_app, returns no value and ends in the check's error.
C1_InvalidPollutantFailsFirst ==
    (call.fn # "none" /\ call.args.pollutant \notin {"SO2", "BC", "CH4"}) =>
       /\ trace = <<>>
       /\ pc \in {"atp52", "app142", "done"}
       /\ (call.fn = "compute_app" => atp = NoFrame)
       /\ outcome.kind # "return"
       /\ (pc = "done" => outcome = Raised("AssertionError"))

C1_Witness ==
    /\ Done
    /\ call.fn = "compute_app"
    /\ call.args.pollutant = "CO2"
    /\ outcome = Raised("AssertionError")

C3_ErfScalingOnlyForSO2 ==
    /\ (pc = "atp76" =>
          LET mms == Events(trace, "get_mm_scaling")
              so2 == atp.pollutant = "SO2" /\ ~atp.erf_scaling
          IN  /\ (so2 <=> mms # {})
              /\ Cardinality(mms) <= 1
              /\ \A i \in mms :
                    /\ trace[i].of = "SO2"
                    /\ atp.rad_eff = Div(call.args.rad_eff, trace[i].val[1])
              /\ (~so2 => atp.rad_eff = call.args.rad_eff))
    /\ (/\ BothAtpReturned
        /\ call.args.pollutant \in {"BC", "CH4"}
        /\ call.args = [prev.call.args EXCEPT !.erf_scaling = ~@]
        /\ trace = prev.trace)
       => outcome = prev.outcome

C3_Witness ==
    /\ BothAtpReturned
    /\ call.args.pollutant = "BC"
    /\ call.args = [prev.call.args EXCEPT !.erf_scaling = ~@]
    /\ trace = prev.trace
    /\ outcome.value[1][1] # Zero

\* |a - b| is within a few roundings of the magnitude of the parts.
Tolerance == F(5, -3)

Close(a, b, x, y) ==
    Le(FAbs(Sub(a, b)), Mul(Tolerance, Add(FAbs(x), FAbs(y))))

\* C4: the six values of compute_app satisfy integrated_arpp =
\* slow_integrated + fast_integrated and pulse_arpp = slow_pulse +
\* fast_pulse, up to rounding.
C4_ArppDecomposition ==
    (Done /\ call.fn = "compute_app" /\ outcome.kind = "return") =>
       LET v == outcome.value
       IN  /\ Len(v) = 6
           /\ Close(v[1], Add(v[2], v[3]), v[2], v[3])
           /\ Close(v[4], Add(v[5], v[6]), v[5], v[6])

C4_Witness ==
    /\ Done
    /\ call.fn = "compute_app"
    /\ outcome.kind = "return"
    /\ outcome.value[2] # Zero
    /\ outcome.value[3] # Zero
    /\ outcome.value[6] # Zero

\* C5: with lifetime_range=True compute_atp uses the lifetimes
\* [tau - tau_std, tau, tau + tau_std] and returns two 3-element results
\* whose middle elements equal the two scalars returned with
\* lifetime_range=False and the same other arguments.
C5_LifetimeRangeNominal ==
    /\ (pc \in {"atp65", "atp71", "atp76"} /\ atp.lifetime_range) =>
          LET spec == constants.SPECS[atp.pollutant]
          IN  atp.tau = <<Sub(spec.tau, spec.tau_std), spec.tau,
                          Add(spec.tau, spec.tau_std)>>
    /\ (Done /\ call.fn = "compute_atp" /\ outcome.kind = "return"
          /\ call.args.lifetime_range) =>
          (Len(outcome.value[1]) = 3 /\ Len(outcome.value[2]) = 3)
    /\ (/\ BothAtpReturned
        /\ call.args.lifetime_range
        /\ call.args = [prev.call.args EXCEPT !.lifetime_range = TRUE]
        /\ ~prev.call.args.lifetime_range
        /\ trace = prev.trace)
       => /\ Len(prev.outcome.value[1]) = 1
          /\ outcome.value[1][2] = prev.outcome.value[1][1]
          /\ outcome.value[2][2] = prev.outcome.value[2][1]

C5_Witness ==
    /\ BothAtpReturned
    /\ call.args.lifetime_range
    /\ ~prev.call.args.lifetime_range
    /\ call.args = [prev.call.args EXCEPT !.lifetime_range = TRUE]
    /\ trace = prev.trace
    /\ call.args.pollutant = "SO2"
    /\ ~call.args.erf_scaling
    /\ outcome.value[1][2] # Zero
    /\ outcome.value[1][1] # outcome.value[1][2]

\* C6: compute_atp called with th = 0 returns both potentials equal to 0,
\* in every element.
C6_ZeroAtHorizonZero ==
    (Done /\ call.fn = "compute_atp" /\ outcome.kind = "return"
       /\ call.args.th = 0) =>
       \A n \in {1, 2} : \A i \in 1..Len(outcome.value[n]) :
          outcome.value[n][i] = Zero

C6_Witness ==
    /\ Done
    /\ call.fn = "compute_atp"
    /\ outcome.kind = "return"
    /\ call.args.th = 0
    /\ call.args.lifetime_range
    /\ call.args.pollutant = "SO2"
    /\ ~call.args.erf_scaling
    /\ call.args.c_scaling

\* The constants table and the caller's arguments are left as they were.
C7_Frame ==
    /\ constants' = constants
    /\ (pc \notin {"idle", "done"} => call' = call)

\* The same call with the same collaborator return values has the same
\* outcome as when it was made before.
C7_Repeatable ==
    (Done /\ prev # NoFrame /\ prev.call = call /\ prev.trace = trace)
       => outcome = prev.outcome

C8_IatpMonotone ==
    (/\ BothAtpReturned
     /\ Lt(Zero, call.args.rad_eff)
     /\ call.args = [prev.call.args EXCEPT !.th = call.args.th]
     /\ trace = prev.trace
     /\ prev.call.args.th <= call.args.th)
    => \A i \in 1..Len(outcome.value[1]) :
          Le(prev.outcome.value[1][i], outcome.value[1][i])

C8_Witness ==
    /\ BothAtpReturned
    /\ Lt(Zero, call.args.rad_eff)
    /\ call.args = [prev.call.args EXCEPT !.th = call.args.th]
    /\ trace = prev.trace
    /\ prev.call.args.th = H2
    /\ call.args.th = H1
    /\ call.args.pollutant = "CH4"
    /\ Lt(prev.outcome.value[1][1], outcome.value[1][1])

\* C9: compute_app enters compute_atp exactly once, with the caller's
\* pollutant, rad_eff and th and with c_scaling=True, erf_scaling=True,
\* lifetime_range=False; the climate-sensitivity lookup is consulted, the
\* multi-model scaling provider never, the lifetime is the scalar tau, and
\* the slow components are Cf*k*iATP*scale and Cf*k*ATP*scale of that call.
C9_AppUsesDefaultAtp ==
    call.fn = "compute_app" =>
       /\ Events(trace, "get_mm_scaling") = {}
       /\ Cardinality(Events(trace, "compute_atp")) <= 1
       /\ \A i \in Events(trace, "compute_atp") :
             /\ trace[i].of = call.args.pollutant
             /\ trace[i].val = <<call.args.rad_eff, FromInt(call.args.th)>>
             /\ trace[i].flags = <<TRUE, TRUE, FALSE>>
       /\ (atp # NoFrame =>
             /\ atp.pollutant = call.args.pollutant
             /\ atp.rad_eff = call.args.rad_eff
             /\ atp.th = call.args.th
             /\ atp.c_scaling /\ atp.erf_scaling /\ ~atp.lifetime_range
             /\ (atp.tau # <<>> =>
                   atp.tau = <<constants.SPECS[call.args.pollutant].tau>>))
       /\ (pc \in {"app153", "done"} /\ outcome.kind # "error" =>
             /\ Cardinality(Events(trace, "compute_atp")) = 1
             /\ Cardinality(Events(trace, "get_scaled_climate_sensitivity")) = 1)
       /\ (outcome.kind = "return" =>
             LET a     == call.args
                 spec  == constants.SPECS[a.pollutant]
                 c     == trace[CHOOSE i \in Events(trace,
                                  "get_scaled_climate_sensitivity") : TRUE].val
                 scale == Div(a.rr_precip_avg, a.precip_avg)
                 iatp  == Iatp(a.rad_eff, spec.tau, c, a.th, constants.D)
                 patp  == Atp(a.rad_eff, spec.tau, c, a.th, constants.D)
             IN  /\ outcome.value[2]
                      = Mul(Mul(Mul(constants.CF, spec.k), iatp), scale)
                 /\ outcome.value[5]
                      = Mul(Mul(Mul(constants.CF, spec.k), patp), scale))

C9_Witness ==
    /\ Done
    /\ call.fn = "compute_app"
    /\ call.args.pollutant = "SO2"
    /\ outcome.kind = "return"
    /\ outcome.value[2] # Zero

\* C10: with the shipped table every lifetime the formulas use is
\* positive, the range triplet is strictly increasing and none of its
\* values equals D[0] or D[1]; no call divides by zero in tau - D[j] or in
\* th / tau.
C10_ShippedLifetimesRegular ==
    /\ \A p \in constants.SLP :
          LET r == Lifetime(constants.SPECS[p], TRUE)
          IN  /\ Lt(Zero, r[1]) /\ Lt(r[1], r[2]) /\ Lt(r[2], r[3])
              /\ r[2] = constants.SPECS[p].tau
              /\ \A i \in 1..3, j \in {0, 1} : r[i] # constants.D[j]
    /\ (pc = "atp76" =>
          \A i \in 1..Len(atp.tau) :
             /\ Lt(Zero, atp.tau[i])
             /\ \A j \in {0, 1} : Sub(atp.tau[i], constants.D[j]) # Zero)
    /\ (pc = "app153" => Lt(Zero, app.tau))
    /\ (Done /\ call.fn = "compute_atp" => outcome.error # "ZeroDivisionError")
    /\ (Done /\ call.fn = "compute_atp" /\ outcome.kind = "return" =>
          \A n \in {1, 2} : \A i \in 1..Len(outcome.value[n]) :
             IsFinite(outcome.value[n][i]))
    /\ (Done /\ call.fn = "compute_app" /\ outcome.error = "ZeroDivisionError"
          => call.args.precip_avg = Zero)

C10_Witness ==
    /\ Done
    /\ call.fn = "compute_atp"
    /\ call.args.pollutant = "CH4"
    /\ call.args.lifetime_range
    /\ call.args.th = H1
    /\ outcome.kind = "return"
    /\ outcome.value[1][1] # outcome.value[1][3]

=============================================================================
